---- MODULE Spec2Model ----
(***************************************************************************)
(* Model of the PepDorsa payment-gateway client (src/src/index.ts).        *)
(*                                                                         *)
(* index.ts holds two declarations of the class PepDorsa: the one at lines *)
(* 67-250 (purchase, multiAccPurchase, confirm) and the one at lines       *)
(* 389-816 (the same plus bill, directCharge, pinCharge, internetCharge).  *)
(* The variable decl says which declaration the client instance is of.     *)
(*                                                                         *)
(* Two client instances are modelled; in the specification Spec every      *)
(* invocation is made on the first.  Every invocation of an operation is   *)
(* an async call that suspends while a request is in flight: first the     *)
(* optional authentication request, then the operation request.  What runs *)
(* between two network events is one atomic step: JavaScript runs a        *)
(* continuation, and the microtasks it queues (an await on a promise that  *)
(* is already settled, the caller's reaction to the returned promise),     *)
(* before the event loop delivers the next network event.                  *)
(*                                                                         *)
(* The caller of a behaviour invokes one operation (method), with one      *)
(* operator argument where the operation takes one, any number of times    *)
(* and with up to two invocations in flight at once (the slots of Calls);  *)
(* the operations differ in their path, their label and their request      *)
(* fields only.                                                            *)
(*                                                                         *)
(* Specifications: Spec, one client of either declaration of index.ts;     *)
(* SpecOperators, the charge operations with every operator argument;      *)
(* SpecInstances, two clients whose invocations interleave;                *)
(* SpecDocumented, one client of the declaration the README documents.     *)
(***************************************************************************)
EXTENDS Integers, Sequences, FiniteSets, TLC

\* Bounds of the model.
MaxAdvances == 2
StartNow == 1000

\* Program constants.
Timeout == 15000
FiveMinutes == 5 * 60 * 1000

\* The slots of the invocations in flight.
Calls == {1, 2}

\* JavaScript's undefined, for string-valued fields and locals.
Undefined == "undefined"

\* Truthiness of a string-or-undefined value, as `token` in
\* `resultCode === 0 && token` and `this.cachedToken && ...`.
Truthy(s) == s # Undefined /\ s # ""

Declarations == {1, 2}

(***************************************************************************)
(* The README documents a later declaration of the class, which index.ts   *)
(* does not hold: it adds verifyTransaction, verify and reverse.  These    *)
(* three are modelled from the documentation: the path each posts to, the  *)
(* name it passes to throwError, and whether it returns the whole envelope *)
(* or, as every operation of index.ts does, the envelope's data.           *)
(***************************************************************************)
Documented == 3

DocumentedMethods == {"verifyTransaction", "verify", "reverse"}

DocumentedPath(o) ==
    CASE o = "verifyTransaction" -> "/api/payment/verify-transactions"
      [] o = "verify" -> "/api/payment/verify-payment"
      [] o = "reverse" -> "/api/payment/reverse-transactions"

DocumentedLabel(o) ==
    CASE o = "verifyTransaction" -> "Verify Transaction"
      [] o = "verify" -> "Verify"
      [] o = "reverse" -> "Reverse"

\* Mutant of DocumentedResult: the envelope returned without its data.
DocumentedResultSimple(o, body) ==
    IF o \in {"verifyTransaction", "verify"}
    THEN [body EXCEPT !.data = Undefined]
    ELSE body.data

\* What the operation returns of a successful response's body.
DocumentedResult(o, body) ==
    IF o \in {"verifyTransaction", "verify"} THEN body ELSE body.data

\* The operations each class declaration offers.
Methods(d) ==
    CASE d = 1 -> {"purchase", "multiAccPurchase", "confirm"}
      [] d = 2 -> {"purchase", "multiAccPurchase", "bill", "directCharge",
                   "pinCharge", "internetCharge", "confirm"}
      [] d = Documented -> DocumentedMethods

AllMethods == Methods(1) \cup Methods(2) \cup Methods(Documented)

\* The first argument each operation passes to throwError.
Label(d, o) ==
    CASE o = "purchase" -> "Purchase"
      [] o = "multiAccPurchase" -> "MultiAccPurchase"
      [] o = "bill" -> "Bill"
      [] o = "directCharge" -> "Direct Charge"
      [] o = "pinCharge" -> "PIN Charge"
      [] o = "internetCharge" -> "Internet Charge"
      [] o = "confirm" -> IF d = 1 THEN "Purchase" ELSE "Confirm"
      [] o \in DocumentedMethods -> DocumentedLabel(o)

\* The path each operation posts to.
Path(o) ==
    CASE o \in {"purchase", "multiAccPurchase"} -> "/api/payment/purchase"
      [] o \in {"bill", "directCharge", "pinCharge", "internetCharge"} ->
             "/api/payment/pre-transaction"
      [] o = "confirm" -> "/api/payment/confirm-transactions"
      [] o \in DocumentedMethods -> DocumentedPath(o)

TokenPath == "/token/getToken"

(***************************************************************************)
(* The operator argument of directCharge, pinCharge and internetCharge.    *)
(* A caller passes a number (the enum's members are numbers) or leaves the *)
(* field out, and the operation then reads undefined.                      *)
(***************************************************************************)
\* enum Operator { MCI, MTN, RTL }
Operator == [MCI |-> 0, MTN |-> 1, RTL |-> 2]

Number(n) == [isUndefined |-> FALSE, number |-> n]
UndefinedOperator == [isUndefined |-> TRUE, number |-> 0]

\* The members of the enum, one number outside it, and no operator at all.
OperatorInputs == {Number(n) : n \in 0..3} \cup {UndefinedOperator}

\* The operations that take an operator.
ChargeMethods == {"directCharge", "pinCharge", "internetCharge"}

\* The operator values a caller may pass to the operation o.
OperatorsOf(o) ==
    IF o \in ChargeMethods THEN OperatorInputs ELSE {UndefinedOperator}

\* `case Operator.X:` of the switch: strict equality with the member.
Is(opr, member) == ~opr.isUndefined /\ opr.number = member

\* Mutant of ServiceCode: pinCharge with the codes of directCharge.
ServiceCodeSameForAll(o, opr) ==
    CASE o = "purchase" -> "8"
      [] o = "multiAccPurchase" -> "9"
      [] o = "bill" -> "4"
      [] o \in ChargeMethods ->
             IF Is(opr, Operator.MCI) THEN "1"
             ELSE IF Is(opr, Operator.MTN) THEN "2"
             ELSE IF Is(opr, Operator.RTL) THEN "3"
             ELSE Undefined
      [] o \in {"confirm"} \cup DocumentedMethods -> Undefined

\* The serviceCode field of the operation's request body: a literal, or the
\* local the switch assigns, which the default branch leaves undefined.
ServiceCode(o, opr) ==
    CASE o = "purchase" -> "8"
      [] o = "multiAccPurchase" -> "9"
      [] o = "bill" -> "4"
      [] o \in {"directCharge", "internetCharge"} ->
             IF Is(opr, Operator.MCI) THEN "1"
             ELSE IF Is(opr, Operator.MTN) THEN "2"
             ELSE IF Is(opr, Operator.RTL) THEN "3"
             ELSE Undefined
      [] o = "pinCharge" ->
             IF Is(opr, Operator.MCI) THEN "5"
             ELSE IF Is(opr, Operator.MTN) THEN "6"
             ELSE IF Is(opr, Operator.RTL) THEN "7"
             ELSE Undefined
      [] o \in {"confirm"} \cup DocumentedMethods -> Undefined

\* Mutant of ToStringThrows: toString answers for undefined too.
ToStringNeverThrows(o, opr) == FALSE

\* `operator.toString()` throws when operator is undefined.
ToStringThrows(o, opr) == o \in ChargeMethods /\ opr.isUndefined

\* The serviceType field of the operation's request body.
ServiceType(o, opr) ==
    CASE o = "purchase" -> "PURCHASE"
      [] o = "multiAccPurchase" -> "MULTIACCPURCHASE"
      [] o = "bill" -> "BILL"
      [] o \in {"directCharge", "internetCharge"} -> ToString(opr.number)
      [] o = "pinCharge" -> ToString(opr.number) \o "-PIN"
      [] o \in {"confirm"} \cup DocumentedMethods -> Undefined

(***************************************************************************)
(* The gateway's responses.  An axios outcome is a record                  *)
(*   status : "ok" | "ECONNABORTED" (the 15 s timeout) | "ERR_NETWORK"     *)
(*   data   : the parsed body, when status is "ok".                        *)
(* A body is either null (isNull) or an envelope object with resultCode,   *)
(* resultMsg and the optional fields token, expireAt and data.             *)
(***************************************************************************)
Envelope(rc, msg, tok, hasExp, exp, dat) ==
    [isNull |-> FALSE, resultCode |-> rc, resultMsg |-> msg, token |-> tok,
     hasExpireAt |-> hasExp, expireAt |-> exp, data |-> dat]

NullBody ==
    [isNull |-> TRUE, resultCode |-> 0, resultMsg |-> Undefined,
     token |-> Undefined, hasExpireAt |-> FALSE, expireAt |-> 0,
     data |-> Undefined]

Response(st, body) == [status |-> st, data |-> body]

NoResponse == Response("none", NullBody)

TransportFailures ==
    {Response("ECONNABORTED", NullBody), Response("ERR_NETWORK", NullBody)}

\* Bodies the authentication endpoint may answer with at instant t.
AuthBodies(t) ==
    { Envelope(0, "ok", "tokA", FALSE, 0, Undefined),
      Envelope(0, "ok", "tokB", FALSE, 0, Undefined),
      Envelope(0, "ok", "tokA", TRUE, t + 2 * FiveMinutes, Undefined),
      Envelope(0, "ok", "", FALSE, 0, Undefined),
      Envelope(0, "ok", Undefined, FALSE, 0, Undefined),
      Envelope(2, "denied", "tokA", FALSE, 0, Undefined),
      NullBody }

AuthResponses(t) ==
    {Response("ok", b) : b \in AuthBodies(t)} \cup TransportFailures

\* Bodies an operation endpoint may answer with.
OpBodies ==
    { Envelope(0, "ok", Undefined, FALSE, 0, "d1"),
      Envelope(0, "ok", Undefined, FALSE, 0, "d2"),
      Envelope(0, "ok", Undefined, FALSE, 0, Undefined),
      Envelope(2, "insufficient funds", Undefined, FALSE, 0, "d1"),
      NullBody }

OpResponses == {Response("ok", b) : b \in OpBodies} \cup TransportFailures

\* JSON.stringify of a body: null is "null"; undefined fields are omitted.
JSONStringify(b) ==
    IF b.isNull THEN "null"
    ELSE "{\"resultCode\":" \o ToString(b.resultCode)
         \o ",\"resultMsg\":\"" \o b.resultMsg \o "\""
         \o (IF b.token = Undefined THEN ""
             ELSE ",\"token\":\"" \o b.token \o "\"")
         \o (IF b.hasExpireAt
             THEN ",\"expireAt\":" \o ToString(b.expireAt) ELSE "")
         \o (IF b.data = Undefined THEN ""
             ELSE ",\"data\":\"" \o b.data \o "\"")
         \o "}"

(***************************************************************************)
(* Errors and promise outcomes.                                            *)
(***************************************************************************)
NoError == [name |-> "", message |-> "", code |-> ""]

\* Mutant of ThrowError: the body left out of the message.
ThrowErrorNoBody(method, body) ==
    [name |-> "Error", message |-> "[" \o method \o "] API error", code |-> ""]

\* throwError(method, body)
ThrowError(method, body) ==
    [name |-> "Error",
     message |-> "[" \o method \o "] API error: " \o JSONStringify(body),
     code |-> ""]

\* The error axios rejects with on a transport failure.
AxiosError(r) ==
    [name |-> "AxiosError",
     message |-> IF r.status = "ECONNABORTED"
                 THEN "timeout of " \o ToString(Timeout) \o "ms exceeded"
                 ELSE "Network Error",
     code |-> r.status]

\* Reading toString of an undefined operator.
ToStringError ==
    [name |-> "TypeError",
     message |-> "Cannot read properties of undefined (reading 'toString')",
     code |-> ""]

\* Destructuring { resultCode, token } of a null body.
DestructureError ==
    [name |-> "TypeError",
     message |-> "Cannot destructure property 'resultCode' of 'res.data' as it is null.",
     code |-> ""]

Pending == [state |-> "pending", value |-> Undefined, error |-> NoError]
Fulfilled(v) == [state |-> "fulfilled", value |-> v, error |-> NoError]
Rejected(e) == [state |-> "rejected", value |-> Undefined, error |-> e]

\* getHeaders(token).Authorization
GetHeaders(tok) == "Bearer " \o tok

\* Network events of one invocation.
Request(path, authorization) ==
    [ev |-> "request", path |-> path, authorization |-> authorization]
Received(path) ==
    [ev |-> "response", path |-> path, authorization |-> Undefined]

VARIABLES
    decl,          \* which declaration of PepDorsa the instance is of
    method,        \* the operation the caller invokes
    operator,      \* the operator the caller passes to it
    this,          \* the client instance each invocation is made on
    cachedToken,   \* the client's cachedToken
    tokenExpiry,   \* the client's tokenExpiry
    other,         \* the same fields of another client instance
    clock,         \* Date.now()
    advances,      \* number of clock advances so far
    issued,        \* the authentication response that filled the cache, the
                   \* instant it was received (at) and the `now` of the
                   \* authenticate() call that received it (sampled)
    pc,            \* where each invocation is suspended
    op,            \* the operation each invocation runs
    now,           \* authenticate()'s local `now`, while it is suspended
    token,         \* the operation's local `token`
    res,           \* the local `res` of the function that just settled
    outcome,       \* the promise the invocation returned
    log            \* the network events of each invocation, in order

vars == <<decl, method, operator, this, cachedToken, tokenExpiry, other, clock,
          advances, issued,
          pc, op, now, token, res, outcome, log>>

NotIssued == [at |-> 0, sampled |-> 0, body |-> NullBody]

\* The two client instances of a behaviour.
Instances == {"client", "other"}

\* Every invocation is made on the client.
OneClient == [p \in Calls |-> "client"]

\* Each of the two instances has the invocations of one slot.
TwoClients == [p \in Calls |-> IF p = 1 THEN "client" ELSE "other"]

\* Clients of one of the declarations ds, just constructed; owner says on
\* which of them each invocation will be made.
Constructed(ds, owner) ==
    /\ decl \in ds
    /\ this = owner
    /\ other = [cachedToken |-> "", tokenExpiry |-> 0, issued |-> NotIssued]
    /\ method \in Methods(decl)
    /\ operator \in OperatorsOf(method)
    /\ cachedToken = ""
    /\ tokenExpiry = 0
    /\ clock = StartNow
    /\ advances = 0
    /\ issued = NotIssued
    /\ pc = [p \in Calls |-> "idle"]
    /\ op = [p \in Calls |-> Undefined]
    /\ now = [p \in Calls |-> 0]
    /\ token = [p \in Calls |-> Undefined]
    /\ res = [p \in Calls |-> NoResponse]
    /\ outcome = [p \in Calls |-> Pending]
    /\ log = [p \in Calls |-> <<>>]

\* One client of either declaration of index.ts; the caller of a charge
\* operation passes MCI or no operator.
Init ==
    /\ Constructed(Declarations, OneClient)
    /\ operator \in {Number(Operator.MCI), UndefinedOperator}

\* One client whose caller invokes a charge operation, with any operator.
InitOperators == Constructed({2}, OneClient) /\ method \in ChargeMethods

InitDocumented == Constructed({Documented}, OneClient)

InitInstances ==
    Constructed({2}, TwoClients) /\ method \in {"purchase", "confirm"}

\* The fields of the instance i.
Fields(i) ==
    IF i = "client"
    THEN [cachedToken |-> cachedToken, tokenExpiry |-> tokenExpiry,
          issued |-> issued]
    ELSE other

\* Mutant of Store: an expiry is never replaced by an earlier one.
StoreLatestExpiry(i, f) ==
    /\ cachedToken' = f.cachedToken
    /\ tokenExpiry' = IF f.tokenExpiry > tokenExpiry THEN f.tokenExpiry
                      ELSE tokenExpiry
    /\ issued' = f.issued
    /\ UNCHANGED other

\* Mutant of Store: a token already cached is kept, the first write wins.
StoreFirstToken(i, f) ==
    /\ cachedToken' = IF cachedToken # "" THEN cachedToken ELSE f.cachedToken
    /\ tokenExpiry' = f.tokenExpiry
    /\ issued' = f.issued
    /\ UNCHANGED other

\* Mutant of Store: the fields are static, one pair for all instances.
StoreStatic(i, f) ==
    /\ cachedToken' = f.cachedToken
    /\ tokenExpiry' = f.tokenExpiry
    /\ issued' = f.issued
    /\ other' = f

\* `this.cachedToken = ...; this.tokenExpiry = ...` on the instance i.
Store(i, f) ==
    IF i = "client"
    THEN /\ cachedToken' = f.cachedToken
         /\ tokenExpiry' = f.tokenExpiry
         /\ issued' = f.issued
         /\ UNCHANGED other
    ELSE /\ other' = f
         /\ UNCHANGED <<cachedToken, tokenExpiry, issued>>

\* Mutants of CacheValid: the comparison inverted; the comparison not strict.
CacheValidInverted(i, t) ==
    Fields(i).cachedToken # "" /\ Fields(i).tokenExpiry < t
CacheValidNonStrict(i, t) ==
    Fields(i).cachedToken # "" /\ Fields(i).tokenExpiry >= t

\* `this.cachedToken && this.tokenExpiry > now`
CacheValid(i, t) == Fields(i).cachedToken # "" /\ Fields(i).tokenExpiry > t

\* Mutants of NewExpiry: the clock read again after the await; the expiry
\* the response carries taken when there is one.
NewExpiryFromReceipt(n, body) == clock + FiveMinutes
NewExpiryFromBody(n, body) ==
    IF body.hasExpireAt THEN body.expireAt ELSE n + FiveMinutes

\* `this.tokenExpiry = now + 5 * 60 * 1000`, whatever the response carries
NewExpiry(n, body) == n + FiveMinutes

\* Mutants of AuthOk: the result code not looked at; the token not looked
\* at.
AuthOkAnyCode(body) == Truthy(body.token)
AuthOkAnyToken(body) == body.resultCode = 0

\* `resultCode === 0 && token`
AuthOk(body) == body.resultCode = 0 /\ Truthy(body.token)

\* Mutant of OpOk: the result code not looked at.
OpOkAnyCode(body) == ~body.isNull

\* `res.data && res.data.resultCode === 0`
OpOk(body) == ~body.isNull /\ body.resultCode = 0

\* The operation's own axios.post, with the token authenticate() returned.
OpRequest(o, opr, tok) ==
    [ev |-> "request", path |-> Path(o), authorization |-> GetHeaders(tok),
     serviceCode |-> ServiceCode(o, opr), serviceType |-> ServiceType(o, opr)]

\* The caller's reaction to a settled promise runs before anything else.
NoneSettled == \A q \in Calls : pc[q] # "done"

(***************************************************************************)
(* The operation o starts in the slot p: it calls authenticate(), which    *)
(* reads the clock and either returns the cached token, and the operation  *)
(* posts its request, or posts to /token/getToken and suspends.            *)
(***************************************************************************)
Invoke(p, o) ==
    /\ op' = [op EXCEPT ![p] = o]
    /\ res' = [res EXCEPT ![p] = NoResponse]
    /\ IF CacheValid(this[p], clock)
       THEN /\ token' = [token EXCEPT ![p] = Fields(this[p]).cachedToken]
            /\ IF ToStringThrows(o, operator)
               THEN /\ pc' = [pc EXCEPT ![p] = "done"]
                    /\ outcome' = [outcome EXCEPT ![p] = Rejected(ToStringError)]
                    /\ log' = [log EXCEPT ![p] = <<>>]
               ELSE /\ pc' = [pc EXCEPT ![p] = "opWait"]
                    /\ outcome' = [outcome EXCEPT ![p] = Pending]
                    /\ log' = [log EXCEPT ![p] =
                           <<OpRequest(o, operator,
                                       Fields(this[p]).cachedToken)>>]
            /\ UNCHANGED now
       ELSE /\ pc' = [pc EXCEPT ![p] = "authWait"]
            /\ now' = [now EXCEPT ![p] = clock]
            /\ token' = [token EXCEPT ![p] = Undefined]
            /\ outcome' = [outcome EXCEPT ![p] = Pending]
            /\ log' = [log EXCEPT ![p] = <<Request(TokenPath, Undefined)>>]
    /\ UNCHANGED <<decl, method, operator, this, cachedToken, tokenExpiry,
                   other, clock, advances, issued>>

(***************************************************************************)
(* The caller invokes an operation.                                        *)
(***************************************************************************)
Call(p, o) ==
    /\ NoneSettled
    /\ pc[p] = "idle"
    /\ \A q \in Calls : (q < p /\ this[q] = this[p]) => pc[q] # "idle"
    /\ o = method
    /\ Invoke(p, o)

\* What authenticate() rejects with when its response r is no success.
AuthError(r) ==
    IF r.status # "ok" THEN AxiosError(r)
    ELSE IF r.data.isNull THEN DestructureError
    ELSE ThrowError("getToken", r.data)

\* Mutant of AuthResponse: a failed authentication is tried again.
AuthResponseRetried(p, r) ==
    /\ NoneSettled
    /\ pc[p] = "authWait"
    /\ r \in AuthResponses(clock)
    /\ IF r.status = "ok" /\ ~r.data.isNull /\ AuthOk(r.data)
       THEN /\ Store(this[p],
                     [cachedToken |-> r.data.token,
                      tokenExpiry |-> NewExpiry(now[p], r.data),
                      issued |-> [at |-> clock, sampled |-> now[p],
                                  body |-> r.data]])
            /\ token' = [token EXCEPT ![p] = r.data.token]
            /\ log' = [log EXCEPT ![p] =
                   @ \o <<Received(TokenPath),
                          OpRequest(op[p], operator, r.data.token)>>]
            /\ pc' = [pc EXCEPT ![p] = "opWait"]
            /\ now' = [now EXCEPT ![p] = 0]
       ELSE /\ log' = [log EXCEPT ![p] =
                   @ \o <<Received(TokenPath), Request(TokenPath, Undefined)>>]
            /\ now' = [now EXCEPT ![p] = clock]
            /\ UNCHANGED <<cachedToken, tokenExpiry, other, issued, token, pc>>
    /\ UNCHANGED <<decl, method, operator, this, clock, advances, op, res,
                   outcome>>

(***************************************************************************)
(* The authentication request of p settles and authenticate() resumes: on  *)
(* success it fills the cache and returns the token, and the operation     *)
(* posts its request; otherwise it throws and the operation rejects.       *)
(***************************************************************************)
AuthResponse(p, r) ==
    /\ NoneSettled
    /\ pc[p] = "authWait"
    /\ r \in AuthResponses(clock)
    /\ now' = [now EXCEPT ![p] = 0]
    /\ IF r.status = "ok" /\ ~r.data.isNull /\ AuthOk(r.data)
       THEN /\ Store(this[p],
                     [cachedToken |-> r.data.token,
                      tokenExpiry |-> NewExpiry(now[p], r.data),
                      issued |-> [at |-> clock, sampled |-> now[p],
                                  body |-> r.data]])
            /\ token' = [token EXCEPT ![p] = r.data.token]
            /\ IF ToStringThrows(op[p], operator)
               THEN /\ pc' = [pc EXCEPT ![p] = "done"]
                    /\ outcome' = [outcome EXCEPT ![p] = Rejected(ToStringError)]
                    /\ log' = [log EXCEPT ![p] = Append(@, Received(TokenPath))]
               ELSE /\ pc' = [pc EXCEPT ![p] = "opWait"]
                    /\ log' = [log EXCEPT ![p] =
                           @ \o <<Received(TokenPath),
                                  OpRequest(op[p], operator, r.data.token)>>]
                    /\ UNCHANGED outcome
            /\ UNCHANGED res
       ELSE /\ res' = [res EXCEPT ![p] = r]
            /\ outcome' = [outcome EXCEPT ![p] = Rejected(AuthError(r))]
            /\ log' = [log EXCEPT ![p] = Append(@, Received(TokenPath))]
            /\ pc' = [pc EXCEPT ![p] = "done"]
            /\ UNCHANGED <<cachedToken, tokenExpiry, other, issued, token>>
    /\ UNCHANGED <<decl, method, operator, this, clock, advances, op>>

\* Mutant of OpResult: a transport failure wrapped by throwError.
OpResultWrapped(d, o, r) ==
    IF r.status # "ok" THEN Rejected(ThrowError(Label(d, o), NullBody))
    ELSE IF OpOk(r.data)
         THEN Fulfilled(IF o \in DocumentedMethods
                        THEN DocumentedResult(o, r.data) ELSE r.data.data)
    ELSE Rejected(ThrowError(Label(d, o), r.data))

\* What the operation o settles with on its response r.
OpResult(d, o, r) ==
    IF r.status # "ok" THEN Rejected(AxiosError(r))
    ELSE IF OpOk(r.data)
         THEN Fulfilled(IF o \in DocumentedMethods
                        THEN DocumentedResult(o, r.data) ELSE r.data.data)
    ELSE Rejected(ThrowError(Label(d, o), r.data))

\* Mutant of OpResponse: a failed operation drops the cached token.
OpResponseInvalidating(p, r) ==
    /\ NoneSettled
    /\ pc[p] = "opWait"
    /\ r \in OpResponses
    /\ res' = [res EXCEPT ![p] = r]
    /\ log' = [log EXCEPT ![p] = Append(@, Received(Path(op[p])))]
    /\ outcome' = [outcome EXCEPT ![p] = OpResult(decl, op[p], r)]
    /\ pc' = [pc EXCEPT ![p] = "done"]
    /\ IF outcome'[p].state = "rejected"
       THEN Store(this[p],
                  [cachedToken |-> "", tokenExpiry |-> 0, issued |-> NotIssued])
       ELSE UNCHANGED <<cachedToken, tokenExpiry, other, issued>>
    /\ UNCHANGED <<decl, method, operator, this, clock, advances, op, now,
                   token>>

(***************************************************************************)
(* The operation request of p settles and the operation resumes.           *)
(***************************************************************************)
OpResponse(p, r) ==
    /\ NoneSettled
    /\ pc[p] = "opWait"
    /\ r \in OpResponses
    /\ res' = [res EXCEPT ![p] = r]
    /\ log' = [log EXCEPT ![p] = Append(@, Received(Path(op[p])))]
    /\ outcome' = [outcome EXCEPT ![p] = OpResult(decl, op[p], r)]
    /\ pc' = [pc EXCEPT ![p] = "done"]
    /\ UNCHANGED <<decl, method, operator, this, cachedToken, tokenExpiry,
                   other, clock, advances, issued, op, now, token>>

(***************************************************************************)
(* The caller observes the settled promise; the invocation is over.        *)
(***************************************************************************)
Return(p) ==
    /\ pc[p] = "done"
    /\ pc' = [pc EXCEPT ![p] = "idle"]
    /\ op' = [op EXCEPT ![p] = Undefined]
    /\ token' = [token EXCEPT ![p] = Undefined]
    /\ res' = [res EXCEPT ![p] = NoResponse]
    /\ outcome' = [outcome EXCEPT ![p] = Pending]
    /\ log' = [log EXCEPT ![p] = <<>>]
    /\ UNCHANGED <<decl, method, operator, this, cachedToken, tokenExpiry,
                   other, clock, advances, issued, now>>

(***************************************************************************)
(* The caller observes the settled promise and, in its reaction to it,     *)
(* invokes the operation again.                                            *)
(***************************************************************************)
Again(p) ==
    /\ pc[p] = "done"
    /\ \A q \in Calls : (q < p /\ this[q] = this[p]) => pc[q] # "idle"
    /\ Invoke(p, method)

(***************************************************************************)
(* Time passes.                                                            *)
(***************************************************************************)
AdvanceSteps == {1, FiveMinutes - 1}

Tick(d) ==
    /\ NoneSettled
    /\ advances < MaxAdvances
    /\ d \in AdvanceSteps
    /\ clock' = clock + d
    /\ advances' = advances + 1
    /\ UNCHANGED <<decl, method, operator, this, cachedToken, tokenExpiry,
                   other, issued, pc, op, now, token, res, outcome, log>>

Next ==
    \/ \E p \in Calls, o \in AllMethods : Call(p, o)
    \/ \E p \in Calls, r \in AuthResponses(clock) : AuthResponse(p, r)
    \/ \E p \in Calls, r \in OpResponses : OpResponse(p, r)
    \/ \E p \in Calls : Return(p)
    \/ \E p \in Calls : Again(p)
    \/ \E d \in AdvanceSteps : Tick(d)

Spec == Init /\ [][Next]_vars

\* The charge operations, with every operator argument.
SpecOperators == InitOperators /\ [][Next]_vars

\* The client of the documented declaration.
SpecDocumented == InitDocumented /\ [][Next]_vars

\* Two client instances of the declaration at index.ts:389, in one process.
SpecInstances == InitInstances /\ [][Next]_vars

(***************************************************************************)
(* Vocabulary of the properties.                                           *)
(***************************************************************************)
IsAuthRequest(e) == e.ev = "request" /\ e.path = TokenPath
IsAuthReceived(e) == e.ev = "response" /\ e.path = TokenPath
IsOpRequest(e) == e.ev = "request" /\ e.path # TokenPath
IsOpReceived(e) == e.ev = "response" /\ e.path # TokenPath

AuthRequestsIn(l) == Cardinality({i \in DOMAIN l : IsAuthRequest(l[i])})
OpRequestsIn(l) == Cardinality({i \in DOMAIN l : IsOpRequest(l[i])})

HasPrefix(s, x) == Len(s) >= Len(x) /\ SubSeq(s, 1, Len(x)) = x
HasSuffix(s, x) ==
    Len(s) >= Len(x) /\ SubSeq(s, Len(s) - Len(x) + 1, Len(s)) = x

\* p is invoked by this step: the slot was free, or the invocation in it
\* had settled and the caller invokes the operation again.
Invoked(p) == pc[p] \in {"idle", "done"} /\ pc'[p] # "idle"

\* authenticate() returned a token to p in this step.
AuthSucceeded(p) == pc[p] = "authWait" /\ token'[p] # Undefined

\* p settled because its authentication failed / on the response to its
\* operation request.
AuthSettled(p) ==
    /\ pc[p] = "done" /\ log[p] # <<>> /\ IsAuthReceived(log[p][Len(log[p])])
    /\ token[p] = Undefined
OpSettled(p) ==
    pc[p] = "done" /\ log[p] # <<>> /\ IsOpReceived(log[p][Len(log[p])])

\* The error e names the operation o of declaration d.
NamesOperation(e, d, o) == HasPrefix(e.message, "[" \o Label(d, o) \o "]")

\* The operation a label names, read as a name.
Labels ==
    {"Purchase", "MultiAccPurchase", "Bill", "Direct Charge", "PIN Charge",
     "Internet Charge", "Confirm"}

OperationNamedBy(l) ==
    CASE l = "Purchase" -> "purchase"
      [] l = "MultiAccPurchase" -> "multiAccPurchase"
      [] l = "Bill" -> "bill"
      [] l = "Direct Charge" -> "directCharge"
      [] l = "PIN Charge" -> "pinCharge"
      [] l = "Internet Charge" -> "internetCharge"
      [] l = "Confirm" -> "confirm"

(***************************************************************************)
(* C1 (token reuse).  An operation invoked while a non-empty token is      *)
(* cached and the clock is strictly before tokenExpiry gets the cached     *)
(* token from authenticate(), and the invocation never posts to            *)
(* /token/getToken.                                                        *)
(***************************************************************************)
C1_TokenReuse ==
    [][\A p \in Calls :
         /\ (Invoked(p) /\ cachedToken # "" /\ clock < tokenExpiry)
               => /\ token'[p] = cachedToken
                  /\ AuthRequestsIn(log'[p]) = 0
         /\ (~Invoked(p) /\ pc'[p] # "idle" /\ AuthRequestsIn(log[p]) = 0)
               => AuthRequestsIn(log'[p]) = 0]_vars

C1_Witness ==
    \E p \in Calls :
        /\ pc[p] = "opWait"
        /\ AuthRequestsIn(log[p]) = 0
        /\ token[p] = cachedToken
        /\ token[p] = "tokB"
        /\ clock < tokenExpiry

(***************************************************************************)
(* C2 (refresh).  An operation invoked when no token is cached, or when    *)
(* the clock is at or after tokenExpiry, posts exactly one authentication  *)
(* request, and its own request only after the response to that one.       *)
(***************************************************************************)
AuthPrecedesOp(l) ==
    \A i \in DOMAIN l :
        IsOpRequest(l[i]) => \E j \in 1..(i - 1) : IsAuthReceived(l[j])

C2_Refresh ==
    [][\A p \in Calls :
         /\ (Invoked(p) /\ (cachedToken = "" \/ clock >= tokenExpiry))
               => /\ AuthRequestsIn(log'[p]) = 1
                  /\ OpRequestsIn(log'[p]) = 0
         /\ (~Invoked(p) /\ pc'[p] # "idle" /\ AuthRequestsIn(log[p]) = 1)
               => /\ AuthRequestsIn(log'[p]) = 1
                  /\ AuthPrecedesOp(log'[p])]_vars

\* A token is cached, the clock is at its expiry, and the only invocation
\* in flight has posted its authentication request at that instant.
C2_Witness ==
    \E p \in Calls :
        /\ pc[p] = "authWait"
        /\ \A q \in Calls \ {p} : pc[q] = "idle"
        /\ cachedToken # ""
        /\ now[p] = tokenExpiry
        /\ AuthRequestsIn(log[p]) = 1
        /\ OpRequestsIn(log[p]) = 0

(***************************************************************************)
(* C3 (coalescing).  At most one authentication request is in flight at    *)
(* any instant.                                                            *)
(***************************************************************************)
C3_Coalescing == Cardinality({p \in Calls : pc[p] = "authWait"}) <= 1

(***************************************************************************)
(* C4 (five-minute fallback).  As claimed: when the response that filled   *)
(* the cache carried no expiry, an invocation reuses the cached token      *)
(* exactly when the clock is less than 5 minutes past the instant the      *)
(* response was received.                                                  *)
(***************************************************************************)
C4_FiveMinutesFromReceipt ==
    [][\A p \in Calls :
         (Invoked(p) /\ cachedToken # "" /\ ~issued.body.hasExpireAt)
            => (AuthRequestsIn(log'[p]) = 0 <=> clock < issued.at + FiveMinutes)]_vars

(***************************************************************************)
(* C4, amended.  When the response that filled the cache carried no        *)
(* expiry, an invocation reuses the cached token exactly when the clock is *)
(* less than 5 minutes past the instant authenticate() read the clock      *)
(* before it sent the authentication request.                              *)
(***************************************************************************)
C4_FiveMinutesFromSample ==
    [][\A p \in Calls :
         (Invoked(p) /\ cachedToken # "" /\ ~issued.body.hasExpireAt)
            => (AuthRequestsIn(log'[p]) = 0 <=> clock < issued.sampled + FiveMinutes)]_vars

\* One invocation reused the token at the last valid instant and is still
\* in flight; the next, one millisecond later, refreshes.
C4_Witness ==
    /\ cachedToken # ""
    /\ ~issued.body.hasExpireAt
    /\ \E p, q \in Calls :
          /\ pc[p] = "opWait" /\ AuthRequestsIn(log[p]) = 0
          /\ pc[q] = "authWait" /\ now[q] = issued.sampled + FiveMinutes

(***************************************************************************)
(* C5 (gateway expiry).  When the response that filled the cache carried   *)
(* an expiry, tokenExpiry is that expiry.                                  *)
(***************************************************************************)
C5_GatewayExpiryUsed ==
    (cachedToken # "" /\ issued.body.hasExpireAt)
        => tokenExpiry = issued.body.expireAt

(***************************************************************************)
(* C6 (failed authentication).  A failed authentication attempt leaves     *)
(* cachedToken and tokenExpiry as they were; the cache changes only in the *)
(* step that receives an authentication response with resultCode 0 and a   *)
(* non-empty token, which it then holds.                                   *)
(***************************************************************************)
C6_FailedAuthKeepsCache ==
    [][/\ \A p \in Calls :
             (pc[p] = "authWait" /\ AuthSettled(p)')
                => (cachedToken' = cachedToken /\ tokenExpiry' = tokenExpiry)
       /\ (cachedToken' # cachedToken \/ tokenExpiry' # tokenExpiry)
             => /\ \E p \in Calls : AuthSucceeded(p)
                /\ issued'.body.resultCode = 0
                /\ Truthy(issued'.body.token)
                /\ cachedToken' = issued'.body.token]_vars

\* An authentication failed with a non-zero resultCode while a token, by
\* then expired, was cached.
C6_Witness ==
    \E p \in Calls :
        /\ AuthSettled(p)
        /\ res[p].status = "ok"
        /\ ~res[p].data.isNull
        /\ res[p].data.resultCode # 0
        /\ cachedToken = "tokB"
        /\ clock >= tokenExpiry

(***************************************************************************)
(* C7 (authentication errors).  When the authentication call fails in      *)
(* transport, or answers with a resultCode other than 0 or without a       *)
(* token, the invocation rejects with the transport error, or with an      *)
(* error whose message carries the raw envelope, and posts no operation    *)
(* request; no such response ever lets the operation proceed.              *)
(***************************************************************************)
AuthFailureRejected(p) ==
    (AuthSettled(p) /\ ~(res[p].status = "ok" /\ res[p].data.isNull))
       => /\ outcome[p].state = "rejected"
          /\ OpRequestsIn(log[p]) = 0
          /\ IF res[p].status # "ok"
             THEN /\ outcome[p].error.name = "AxiosError"
                  /\ outcome[p].error.code = res[p].status
             ELSE /\ res[p].data.resultCode # 0 \/ ~Truthy(res[p].data.token)
                  /\ HasSuffix(outcome[p].error.message,
                               JSONStringify(res[p].data))

C7_AuthFailureRejects ==
    [][\A p \in Calls :
         /\ AuthFailureRejected(p)'
         /\ AuthSucceeded(p)
               => /\ issued'.body.resultCode = 0
                  /\ Truthy(issued'.body.token)]_vars

C7_Witness ==
    \E p \in Calls :
        /\ AuthSettled(p)
        /\ res[p].status = "ok"
        /\ ~res[p].data.isNull
        /\ res[p].data.resultCode = 0
        /\ res[p].data.token = ""
        /\ outcome[p].state = "rejected"

(***************************************************************************)
(* C8 (success payload).  An operation resolves exactly when its response  *)
(* envelope has resultCode 0, and then with the envelope's data field.     *)
(***************************************************************************)
C8_ResolvesWithData ==
    \A p \in Calls :
        pc[p] = "done"
           => /\ outcome[p].state = "fulfilled"
                    <=> /\ OpSettled(p)
                        /\ res[p].status = "ok"
                        /\ ~res[p].data.isNull
                        /\ res[p].data.resultCode = 0
              /\ outcome[p].state = "fulfilled"
                    => outcome[p].value = res[p].data.data

C8_Witness ==
    \E p \in Calls :
        /\ OpSettled(p)
        /\ op[p] = "confirm"
        /\ outcome[p] = Fulfilled("d2")

(***************************************************************************)
(* C9 (gateway errors).  An operation whose response envelope has a        *)
(* resultCode other than 0 rejects with an error that names that same      *)
(* operation (confirm's names confirm, not another one) and carries the    *)
(* envelope.                                                               *)
(***************************************************************************)
C9_GatewayErrorNamesOperation ==
    \A p \in Calls :
        (OpSettled(p) /\ res[p].status = "ok" /\ ~res[p].data.isNull
                      /\ res[p].data.resultCode # 0)
           => /\ outcome[p].state = "rejected"
              /\ HasSuffix(outcome[p].error.message, JSONStringify(res[p].data))
              /\ \E l \in Labels :
                    /\ HasPrefix(outcome[p].error.message, "[" \o l \o "]")
                    /\ OperationNamedBy(l) = op[p]

(***************************************************************************)
(* C10 (transport failures).  As claimed: an operation whose own request   *)
(* fails in transport rejects with an outcome that exposes the operation   *)
(* name and the transport error.                                           *)
(***************************************************************************)
C10_TransportErrorNamesOperation ==
    \A p \in Calls :
        (OpSettled(p) /\ res[p].status # "ok")
           => /\ outcome[p].state = "rejected"
              /\ outcome[p].error.code = res[p].status
              /\ NamesOperation(outcome[p].error, decl, op[p])

(***************************************************************************)
(* C10, amended.  An operation whose own request fails in transport        *)
(* rejects with the transport error itself, unchanged; the rejection does  *)
(* not name the operation.                                                 *)
(***************************************************************************)
C10_TransportErrorPassedThrough ==
    \A p \in Calls :
        (OpSettled(p) /\ res[p].status # "ok")
           => /\ outcome[p].state = "rejected"
              /\ outcome[p].error.name = "AxiosError"
              /\ outcome[p].error.code = res[p].status
              /\ ~NamesOperation(outcome[p].error, decl, op[p])

C10_Witness ==
    \E p \in Calls :
        /\ OpSettled(p)
        /\ res[p].status = "ECONNABORTED"
        /\ outcome[p].state = "rejected"

(***************************************************************************)
(* C11 (no internal retries).  One invocation posts at most one            *)
(* authentication request and at most one operation request, whatever the  *)
(* outcomes; the step in which an invocation rejects posts no request, a   *)
(* failed response settles the invocation as rejected in the step that     *)
(* receives it, and a settled invocation posts nothing more (what follows  *)
(* in its slot is another invocation, made by the caller).                 *)
(***************************************************************************)
RequestsIn(l) == AuthRequestsIn(l) + OpRequestsIn(l)

FailedResponse(r) ==
    r.status # "none"
       /\ (r.status # "ok" \/ r.data.isNull \/ r.data.resultCode # 0)

C11_NoRetry ==
    [][\A p \in Calls :
         /\ AuthRequestsIn(log'[p]) <= 1
         /\ OpRequestsIn(log'[p]) <= 1
         /\ (pc[p] # "done" /\ outcome'[p].state = "rejected")
               => /\ pc'[p] = "done"
                  /\ RequestsIn(log'[p]) = RequestsIn(log[p])
         /\ (pc[p] \in {"authWait", "opWait"} /\ Len(log'[p]) > Len(log[p])
                /\ FailedResponse(res'[p]))
               => /\ outcome'[p].state = "rejected"
                  /\ log'[p] = Append(log[p], Received(log[p][Len(log[p])].path))
         /\ (pc[p] = "done" /\ ~Invoked(p)) => log'[p] \in {log[p], <<>>}]_vars

\* An invocation authenticated, posted its request, and rejected when that
\* request timed out.
C11_Witness ==
    \E p \in Calls :
        /\ pc[p] = "done"
        /\ outcome[p].state = "rejected"
        /\ res[p].status = "ECONNABORTED"
        /\ AuthRequestsIn(log[p]) = 1
        /\ OpRequestsIn(log[p]) = 1

(***************************************************************************)
(* C12 (operator to service code).  For the operators MCI, MTN and RTL in  *)
(* this order, the request directCharge posts carries serviceCode 1, 2, 3, *)
(* the one pinCharge posts 5, 6, 7, and the one internetCharge posts       *)
(* 1, 2, 3; each goes to /api/payment/pre-transaction.                     *)
(***************************************************************************)
EnumMembers == {Operator.MCI, Operator.MTN, Operator.RTL}

CodesOf(o) ==
    CASE o = "directCharge" -> <<"1", "2", "3">>
      [] o = "pinCharge" -> <<"5", "6", "7">>
      [] o = "internetCharge" -> <<"1", "2", "3">>

PositionOf(member) ==
    CASE member = Operator.MCI -> 1
      [] member = Operator.MTN -> 2
      [] member = Operator.RTL -> 3

C12_ServiceCodes ==
    \A p \in Calls :
        (op[p] \in ChargeMethods /\ ~operator.isUndefined
                                 /\ operator.number \in EnumMembers)
           => /\ pc[p] = "opWait" => OpRequestsIn(log[p]) = 1
              /\ \A i \in DOMAIN log[p] :
                    IsOpRequest(log[p][i])
                       => /\ log[p][i].path = "/api/payment/pre-transaction"
                          /\ log[p][i].serviceCode =
                                CodesOf(op[p])[PositionOf(operator.number)]

\* pinCharge for RTL is waiting for the answer to its request with code 7.
C12_Witness ==
    \E p \in Calls :
        /\ op[p] = "pinCharge"
        /\ operator = Number(Operator.RTL)
        /\ pc[p] = "opWait"
        /\ \E i \in DOMAIN log[p] :
              IsOpRequest(log[p][i]) /\ log[p][i].serviceCode = "7"

(***************************************************************************)
(* C13 (operator validation).  directCharge invoked with an operator       *)
(* outside {MCI, MTN, RTL} rejects before any network call: the invocation *)
(* posts neither an authentication request nor a pre-transaction request.  *)
(***************************************************************************)
OutsideEnum == operator.isUndefined \/ operator.number \notin EnumMembers

C13_InvalidOperatorRejectedUnsent ==
    \A p \in Calls :
        (op[p] = "directCharge" /\ OutsideEnum)
           => /\ log[p] = <<>>
              /\ pc[p] = "done"
              /\ outcome[p].state = "rejected"

(***************************************************************************)
(* C18 (unmapped operator).  As claimed: directCharge, pinCharge and       *)
(* internetCharge invoked with an operator outside the enumeration, an     *)
(* absent one included, still post the pre-transaction request once        *)
(* authenticate() has returned, with serviceCode unset.                    *)
(***************************************************************************)
PostedWithCodeUnset(p) ==
    /\ OpRequestsIn(log[p]) = 1
    /\ \A i \in DOMAIN log[p] :
          IsOpRequest(log[p][i])
             => /\ log[p][i].path = "/api/payment/pre-transaction"
                /\ log[p][i].serviceCode = Undefined

C18_UnmappedOperatorPosted ==
    \A p \in Calls :
        (op[p] \in ChargeMethods /\ OutsideEnum /\ token[p] # Undefined)
           => PostedWithCodeUnset(p)

(***************************************************************************)
(* C18, amended.  directCharge, pinCharge and internetCharge invoked with  *)
(* an operator that is present but outside the enumeration post the        *)
(* pre-transaction request once authenticate() has returned, with          *)
(* serviceCode unset.  Invoked with no operator they post no               *)
(* pre-transaction request: once authenticate() has returned, reading      *)
(* operator.toString() throws and the invocation rejects with that         *)
(* TypeError.                                                              *)
(***************************************************************************)
C18_UnmappedOperatorPostedIfPresent ==
    \A p \in Calls :
        (op[p] \in ChargeMethods /\ OutsideEnum /\ token[p] # Undefined)
           => IF operator.isUndefined
              THEN /\ OpRequestsIn(log[p]) = 0
                   /\ pc[p] = "done"
                   /\ outcome[p].state = "rejected"
                   /\ outcome[p].error.name = "TypeError"
              ELSE PostedWithCodeUnset(p)

\* pinCharge with an operator that is no member is waiting for the answer
\* to its request.
C18_WitnessPresent ==
    \E p \in Calls :
        /\ op[p] = "pinCharge"
        /\ operator = Number(3)
        /\ pc[p] = "opWait"
        /\ PostedWithCodeUnset(p)

\* internetCharge with no operator authenticated and then rejected.
C18_Witness ==
    \E p \in Calls :
        /\ op[p] = "internetCharge"
        /\ operator = UndefinedOperator
        /\ pc[p] = "done"
        /\ AuthRequestsIn(log[p]) = 1
        /\ token[p] = "tokA"
        /\ outcome[p] = Rejected(ToStringError)

(***************************************************************************)
(* C14 (verification and reversal).  The client offers verifyTransaction,  *)
(* verify and reverse, each posting its own request after authenticating;  *)
(* verifyTransaction and verify resolve exactly when the response envelope *)
(* has resultCode 0, and then with the whole envelope, not its data field; *)
(* on any other resultCode they reject.                                    *)
(***************************************************************************)
C14_VerifyResolvesWithEnvelope ==
    /\ method \in {"verifyTransaction", "verify", "reverse"}
    /\ \A p \in Calls :
          /\ pc[p] = "opWait" => OpRequestsIn(log[p]) = 1
          /\ (OpSettled(p) /\ op[p] \in {"verifyTransaction", "verify"}
                           /\ res[p].status = "ok" /\ ~res[p].data.isNull)
                => IF res[p].data.resultCode = 0
                   THEN /\ outcome[p].state = "fulfilled"
                        /\ outcome[p].value = res[p].data
                        /\ outcome[p].value.resultCode = 0
                   ELSE outcome[p].state = "rejected"

\* verify resolved with an envelope that holds data.
C14_Witness ==
    \E p \in Calls :
        /\ OpSettled(p)
        /\ op[p] = "verify"
        /\ outcome[p].state = "fulfilled"
        /\ outcome[p].value = Envelope(0, "ok", Undefined, FALSE, 0, "d1")

OpFailed(p) ==
    /\ OpSettled(p)
    /\ \/ res[p].status \in {"ECONNABORTED", "ERR_NETWORK"}
       \/ res[p].status = "ok" /\ ~res[p].data.isNull
                               /\ res[p].data.resultCode # 0

C16_FailedOperationKeepsCache ==
    [][\A p \in Calls :
         /\ (pc[p] = "opWait" /\ OpFailed(p)')
               => (cachedToken' = cachedToken /\ tokenExpiry' = tokenExpiry)
         /\ OpFailed(p)
               => /\ cachedToken' = cachedToken /\ tokenExpiry' = tokenExpiry
                  /\ (Invoked(p) /\ cachedToken # "" /\ clock < tokenExpiry)
                        => /\ AuthRequestsIn(log'[p]) = 0
                           /\ OpRequestsIn(log'[p]) = 1
                           /\ token'[p] = cachedToken
                           /\ cachedToken = token[p] => token'[p] = token[p]]_vars

\* An invocation authenticated and its request then timed out, with the
\* token it obtained still cached and still valid.
C16_Witness ==
    \E p \in Calls :
        /\ OpFailed(p)
        /\ res[p].status = "ECONNABORTED"
        /\ AuthRequestsIn(log[p]) = 1
        /\ cachedToken = token[p]
        /\ clock < tokenExpiry

(***************************************************************************)
(* C17 (instance isolation).  A step of an invocation made on one instance *)
(* leaves cachedToken and tokenExpiry of every other instance unchanged;   *)
(* and the token an invocation attaches to its request is the one cached   *)
(* on its own instance at that instant (just obtained by it, or obtained   *)
(* earlier by that instance), whatever the other instance holds.           *)
(***************************************************************************)
C17_InstanceIsolation ==
    [][\A p \in Calls :
         /\ (pc'[p] # pc[p] \/ log'[p] # log[p])
               => \A i \in Instances \ {this[p]} :
                     /\ Fields(i)'.cachedToken = Fields(i).cachedToken
                     /\ Fields(i)'.tokenExpiry = Fields(i).tokenExpiry
         /\ (pc[p] # "opWait" /\ pc'[p] = "opWait")
               => /\ token'[p] = Fields(this[p])'.cachedToken
                  /\ \A k \in DOMAIN log'[p] :
                        IsOpRequest(log'[p][k])
                           => log'[p][k].authorization =
                                 "Bearer " \o Fields(this[p])'.cachedToken]_vars

\* Each instance holds a token of its own and has a request in flight that
\* carries it.
C17_Witness ==
    /\ this[1] # this[2]
    /\ Fields(this[1]).cachedToken = "tokA"
    /\ Fields(this[2]).cachedToken = "tokB"
    /\ pc[1] = "opWait" /\ token[1] = "tokA"
    /\ pc[2] = "opWait" /\ token[2] = "tokB"

(***************************************************************************)
(* C19 (bearer token).  Every operation request carries, as its bearer     *)
(* token, the token authenticate() returned to the invocation that posts   *)
(* it.  When authenticate() returned it, that token was either the cached  *)
(* token, with tokenExpiry strictly after the clock, or the token of the   *)
(* authentication response with resultCode 0 just received; it is never    *)
(* empty or absent.                                                        *)
(***************************************************************************)
C19_BearerTokenFromAuthenticate ==
    [][\A p \in Calls :
         /\ \A k \in DOMAIN log'[p] :
               IsOpRequest(log'[p][k])
                  => /\ log'[p][k].authorization = "Bearer " \o token'[p]
                     /\ token'[p] \notin {"", Undefined}
         /\ (pc[p] # "opWait" /\ pc'[p] = "opWait")
               => /\ OpRequestsIn(log'[p]) = 1
                  /\ IF pc[p] = "authWait"
                     THEN /\ issued'.at = clock
                          /\ issued'.body.resultCode = 0
                          /\ issued'.body.token = token'[p]
                     ELSE /\ cachedToken = token'[p]
                          /\ tokenExpiry > clock
         /\ (pc[p] = "opWait" /\ pc'[p] # "idle" /\ ~Invoked(p))
               => token'[p] = token[p]]_vars

\* An invocation authenticated and posted its request with the token of
\* the response; the cache has been refreshed with another token since.
C19_Witness ==
    \E p \in Calls :
        /\ pc[p] = "opWait"
        /\ AuthRequestsIn(log[p]) = 1
        /\ log[p][Len(log[p])].authorization = "Bearer tokB"
        /\ cachedToken = "tokA"

(***************************************************************************)
(* C20 (atomic pair).  Under any interleaving of invocations on one        *)
(* client, whenever a token is cached it is the token of the response that *)
(* filled the cache last, and tokenExpiry is 5 minutes after the instant   *)
(* at which the authenticate() call that received that response started:   *)
(* the token of one response is never paired with the expiry of another.   *)
(***************************************************************************)
C20_PairFromOneResponse ==
    /\ [](cachedToken # ""
             => /\ cachedToken = issued.body.token
                /\ tokenExpiry = issued.sampled + FiveMinutes)
    /\ [][\A p \in Calls :
             (pc[p] = "authWait" /\ token'[p] # Undefined)
                => /\ cachedToken' = token'[p]
                   /\ tokenExpiry' = now[p] + FiveMinutes
                   /\ issued'.sampled = now[p]]_vars

\* Two authentication calls overlapped; the one that started when the
\* client was new was answered last, and the cache holds its token with
\* the expiry counted from its start.
C20_Witness ==
    \E p, q \in Calls :
        /\ pc[p] = "opWait" /\ AuthRequestsIn(log[p]) = 1
        /\ pc[q] = "opWait" /\ AuthRequestsIn(log[q]) = 1
        /\ token[p] = "tokA" /\ token[q] = "tokB"
        /\ cachedToken = "tokA"
        /\ tokenExpiry = StartNow + FiveMinutes
        /\ issued.at > StartNow + 1

(***************************************************************************)
(* C21 (monotonic expiry).  Across any sequence and any interleaving of    *)
(* operations on one client, overlapping authentication calls whose        *)
(* responses arrive in another order than the calls started included, each *)
(* write to tokenExpiry stores a value greater than or equal to the        *)
(* previous one.                                                           *)
(***************************************************************************)
C21_ExpiryNeverDecreases == [][tokenExpiry' >= tokenExpiry]_vars

(***************************************************************************)
(* C22 (concurrent refresh).  When several invocations refresh at the same *)
(* time, the operation request of each carries the token of its own        *)
(* authentication response, and keeps carrying it when the response of     *)
(* another invocation overwrites the cache; every successful               *)
(* authentication response overwrites the cached token with its own, and   *)
(* nothing else writes it, so that once all of them are through the cache  *)
(* holds the token of the response processed last.                         *)
(***************************************************************************)
C22_OwnTokenLastWriteWins ==
    [][\A p \in Calls :
         /\ AuthSucceeded(p)
               => /\ issued'.at = clock /\ issued'.sampled = now[p]
                  /\ token'[p] = issued'.body.token
                  /\ cachedToken' = issued'.body.token
                  /\ \A k \in DOMAIN log'[p] :
                        IsOpRequest(log'[p][k])
                           => log'[p][k].authorization =
                                 "Bearer " \o issued'.body.token
                  /\ \A q \in Calls \ {p} :
                        pc[q] = "opWait"
                           => /\ log'[q] = log[q]
                              /\ token'[q] = token[q]
                              /\ log[q][Len(log[q])].authorization =
                                    "Bearer " \o token[q]
         /\ (\A q \in Calls : ~AuthSucceeded(q))
               => cachedToken' = cachedToken /\ issued' = issued]_vars

\* Two invocations refreshed at the same time and got different tokens.
\* The one answered first has completed, with a request that carried its
\* own token; the cache holds the token of the one answered last.
C22_Witness ==
    \E p, q \in Calls :
        /\ pc[p] = "done" /\ outcome[p].state = "fulfilled"
        /\ AuthRequestsIn(log[p]) = 1
        /\ \E k \in DOMAIN log[p] :
              /\ IsOpRequest(log[p][k])
              /\ log[p][k].authorization = "Bearer tokB"
        /\ pc[q] = "opWait" /\ AuthRequestsIn(log[q]) = 1
        /\ log[q][Len(log[q])].authorization = "Bearer tokA"
        /\ cachedToken = "tokA"
        /\ issued.body.token = "tokA"

====
